---- MODULE Spec2Model ----
(***************************************************************************)
(* A model of mcp_massive/formatters.py: json_to_csv and _flatten_dict.    *)
(*                                                                         *)
(* Text (Python str) is a sequence of one-character strings, so that       *)
(* parsing, stringification, key joining and CSV quoting are computed      *)
(* character by character.  A JSON value is a tagged record; a Python dict *)
(* is a sequence of <<key, value>> pairs with distinct keys, in insertion  *)
(* order.                                                                  *)
(***************************************************************************)
EXTENDS Integers, Sequences, FiniteSets, TLC

VARIABLES
    pc,                 \* "start" until the call has ended, then "done"
    json_input,         \* the argument of json_to_csv
    data,               \* json_to_csv: the parsed value
    records,            \* json_to_csv: the record list
    flattened_records,  \* json_to_csv: the list of Flat Rows
    all_keys,           \* json_to_csv: the header
    outcome,            \* "none", "returned" or "raised"
    output,             \* the text json_to_csv returned
    ret_line,           \* the source line of the return statement taken
    d,                  \* the argument of _flatten_dict
    flat                \* the dict _flatten_dict returned

vars == <<pc, json_input, data, records, flattened_records, all_keys,
          outcome, output, ret_line, d, flat>>

-----------------------------------------------------------------------------
(* JSON values as Python objects *)

Null == [t |-> "null"]
Bool(b) == [t |-> "bool", v |-> b]
Num(n) == [t |-> "num", v |-> n]
Str(s) == [t |-> "str", v |-> s]
List(xs) == [t |-> "list", v |-> xs]
Dict(ps) == [t |-> "dict", v |-> ps]

IsStr(x) == x.t = "str"
IsList(x) == x.t = "list"
IsDict(x) == x.t = "dict"

\* The value that stands for "not assigned".
Unset == [t |-> "unset"]

-----------------------------------------------------------------------------
(* Sequence helpers *)

RECURSIVE Concat(_)
Concat(ss) == IF ss = <<>> THEN <<>> ELSE Head(ss) \o Concat(Tail(ss))

RECURSIVE Join(_, _)
Join(sep, ss) ==
    IF ss = <<>> THEN <<>>
    ELSE IF Len(ss) = 1 THEN ss[1]
    ELSE ss[1] \o sep \o Join(sep, Tail(ss))

Range(s) == {s[i] : i \in DOMAIN s}

\* Python dict operations on a sequence of <<key, value>> pairs.
DictKeys(ps) == [i \in DOMAIN ps |-> ps[i][1]]
HasKey(ps, k) == \E i \in DOMAIN ps : ps[i][1] = k
Lookup(ps, k) == ps[CHOOSE i \in DOMAIN ps : ps[i][1] = k][2]

\* d[k] = v: an existing key keeps its position and takes the new value, a new
\* key goes last.
DictSet(ps, k, val) ==
    IF HasKey(ps, k)
    THEN [i \in DOMAIN ps |-> IF ps[i][1] = k THEN <<k, val>> ELSE ps[i]]
    ELSE Append(ps, <<k, val>>)

\* dict(items): the items inserted one after the other.
RECURSIVE DictFromItemsAcc(_, _)
DictFromItemsAcc(acc, items) ==
    IF items = <<>> THEN acc
    ELSE DictFromItemsAcc(DictSet(acc, Head(items)[1], Head(items)[2]), Tail(items))

\* A faulty variant of dict(items): a key already present keeps its first value.
DictFromItemsFirstWins(items) ==
    LET RECURSIVE Go(_, _)
        Go(acc, rest) ==
            IF rest = <<>> THEN acc
            ELSE Go(IF HasKey(acc, Head(rest)[1]) THEN acc ELSE Append(acc, Head(rest)),
                    Tail(rest))
    IN Go(<<>>, items)

DictFromItems(items) == DictFromItemsAcc(<<>>, items)

-----------------------------------------------------------------------------
(* str() and repr() of Python objects *)

DigitChars == <<"0", "1", "2", "3", "4", "5", "6", "7", "8", "9">>

RECURSIVE NatStr(_)
NatStr(n) ==
    IF n < 10 THEN <<DigitChars[n + 1]>>
    ELSE NatStr(n \div 10) \o <<DigitChars[(n % 10) + 1]>>

IntStr(n) == IF n < 0 THEN <<"-">> \o NatStr(-n) ELSE NatStr(n)

\* repr(str): single quotes, unless the text holds a single quote and no
\* double quote; the quote character, the backslash and the control characters
\* are escaped.
ReprStr(s) ==
    LET q == IF "'" \in Range(s) /\ ~("\"" \in Range(s)) THEN "\"" ELSE "'"
        Esc(c) == IF c = q THEN <<"\\", q>>
                  ELSE IF c = "\\" THEN <<"\\", "\\">>
                  ELSE IF c = "\n" THEN <<"\\", "n">>
                  ELSE IF c = "\r" THEN <<"\\", "r">>
                  ELSE IF c = "\t" THEN <<"\\", "t">>
                  ELSE <<c>>
    IN <<q>> \o Concat([i \in DOMAIN s |-> Esc(s[i])]) \o <<q>>

RECURSIVE PyRepr(_)
PyRepr(x) ==
    CASE x.t = "null" -> <<"N", "o", "n", "e">>
      [] x.t = "bool" -> IF x.v THEN <<"T", "r", "u", "e">>
                         ELSE <<"F", "a", "l", "s", "e">>
      [] x.t = "num"  -> IntStr(x.v)
      [] x.t = "str"  -> ReprStr(x.v)
      [] x.t = "list" ->
            <<"[">> \o Join(<<",", " ">>, [i \in DOMAIN x.v |-> PyRepr(x.v[i])]) \o <<"]">>
      [] x.t = "dict" ->
            <<"{">>
            \o Join(<<",", " ">>,
                    [i \in DOMAIN x.v |->
                        ReprStr(x.v[i][1]) \o <<":", " ">> \o PyRepr(x.v[i][2])])
            \o <<"}">>

\* A faulty variant of str(): None is written as the empty text.
PyStrNoneEmpty(x) ==
    IF x.t = "str" THEN x.v ELSE IF x.t = "null" THEN <<>> ELSE PyRepr(x)

\* str(x): a str is itself, anything else is its repr.
PyStr(x) == IF x.t = "str" THEN x.v ELSE PyRepr(x)

-----------------------------------------------------------------------------
(* json.loads: the text is scanned from position 1; every scanner returns   *)
(* either Fail (JSONDecodeError) or the value with the position after it.   *)

Fail == [ok |-> FALSE]
Ok(val, end) == [ok |-> TRUE, val |-> val, end |-> end]

Whitespace == {" ", "\t", "\n", "\r"}
Digits == {"0", "1", "2", "3", "4", "5", "6", "7", "8", "9"}
DigitVal(c) == CHOOSE n \in 0..9 : DigitChars[n + 1] = c

CharAt(s, i) == IF i \in DOMAIN s THEN s[i] ELSE "EOF"

\* The first position from i on that holds no whitespace.
RECURSIVE SkipWs(_, _)
SkipWs(s, i) == IF CharAt(s, i) \in Whitespace THEN SkipWs(s, i + 1) ELSE i

\* s[i:i+len(w)] == w
StartsWith(s, i, w) ==
    /\ i + Len(w) - 1 <= Len(s)
    /\ \A j \in DOMAIN w : s[i + j - 1] = w[j]

\* The body of a JSON string from position i (after the opening quote) to the
\* closing quote.  Strict mode: a raw control character ends the scan in an
\* error.  The escapes \" \\ \/ \n \r \t are decoded; the texts of the model
\* hold no other escape.
RECURSIVE ScanString(_, _, _)
ScanString(s, i, acc) ==
    LET c == CharAt(s, i) IN
    IF c = "EOF" THEN Fail
    ELSE IF c = "\"" THEN Ok(Str(acc), i + 1)
    ELSE IF c \in {"\n", "\r", "\t"} THEN Fail
    ELSE IF c = "\\" THEN
        LET e == CharAt(s, i + 1) IN
        IF e \in {"\"", "\\", "/"} THEN ScanString(s, i + 2, Append(acc, e))
        ELSE IF e = "n" THEN ScanString(s, i + 2, Append(acc, "\n"))
        ELSE IF e = "r" THEN ScanString(s, i + 2, Append(acc, "\r"))
        ELSE IF e = "t" THEN ScanString(s, i + 2, Append(acc, "\t"))
        ELSE Fail
    ELSE ScanString(s, i + 1, Append(acc, c))

\* The digits from position i on, as a number with the position after them.
RECURSIVE ScanDigits(_, _, _)
ScanDigits(s, i, n) ==
    IF CharAt(s, i) \in Digits
    THEN ScanDigits(s, i + 1, 10 * n + DigitVal(s[i]))
    ELSE <<n, i>>

\* match_number: -?(0|[1-9][0-9]*).  The texts of the model hold no fraction
\* and no exponent, so every number is an int.
ScanNumber(s, i) ==
    LET neg == CharAt(s, i) = "-"
        j == IF neg THEN i + 1 ELSE i
        c == CharAt(s, j)
    IN  IF c = "0" THEN Ok(Num(0), j + 1)
        ELSE IF c \in Digits
        THEN LET r == ScanDigits(s, j, 0)
             IN Ok(Num(IF neg THEN -r[1] ELSE r[1]), r[2])
        ELSE Fail

RECURSIVE ScanOnce(_, _)
RECURSIVE ParseArrayItems(_, _, _)
RECURSIVE ParseObjectPairs(_, _, _)

\* JSONArray after the opening bracket.
ParseArray(s, i) ==
    LET j == SkipWs(s, i) IN
    IF CharAt(s, j) = "]" THEN Ok(List(<<>>), j + 1)
    ELSE ParseArrayItems(s, j, <<>>)

\* One value at position i, then "]" or "," and the next value.
ParseArrayItems(s, i, acc) ==
    LET r == ScanOnce(s, i) IN
    IF ~r.ok THEN Fail
    ELSE LET j == SkipWs(s, r.end)
             c == CharAt(s, j)
         IN  IF c = "]" THEN Ok(List(Append(acc, r.val)), j + 1)
             ELSE IF c = "," THEN ParseArrayItems(s, SkipWs(s, j + 1), Append(acc, r.val))
             ELSE Fail

\* JSONObject after the opening brace.
ParseObject(s, i) ==
    LET j == SkipWs(s, i) IN
    IF CharAt(s, j) = "}" THEN Ok(Dict(<<>>), j + 1)
    ELSE IF CharAt(s, j) = "\"" THEN ParseObjectPairs(s, j + 1, <<>>)
    ELSE Fail

\* One "key": value pair whose key starts at position i (after its opening
\* quote), then "}" or "," and the next pair; the pairs become dict(pairs).
ParseObjectPairs(s, i, acc) ==
    LET k == ScanString(s, i, <<>>) IN
    IF ~k.ok THEN Fail
    ELSE LET j == SkipWs(s, k.end) IN
         IF CharAt(s, j) # ":" THEN Fail
         ELSE LET r == ScanOnce(s, SkipWs(s, j + 1)) IN
              IF ~r.ok THEN Fail
              ELSE LET m == SkipWs(s, r.end)
                       c == CharAt(s, m)
                       pairs == Append(acc, <<k.val.v, r.val>>)
                   IN  IF c = "}" THEN Ok(Dict(DictFromItems(pairs)), m + 1)
                       ELSE IF c = ","
                       THEN LET n == SkipWs(s, m + 1) IN
                            IF CharAt(s, n) = "\""
                            THEN ParseObjectPairs(s, n + 1, pairs)
                            ELSE Fail
                       ELSE Fail

\* scan_once: the value that starts at position i.
ScanOnce(s, i) ==
    LET c == CharAt(s, i) IN
    IF c = "EOF" THEN Fail
    ELSE IF c = "\"" THEN ScanString(s, i + 1, <<>>)
    ELSE IF c = "{" THEN ParseObject(s, i + 1)
    ELSE IF c = "[" THEN ParseArray(s, i + 1)
    ELSE IF StartsWith(s, i, <<"n", "u", "l", "l">>) THEN Ok(Null, i + 4)
    ELSE IF StartsWith(s, i, <<"t", "r", "u", "e">>) THEN Ok(Bool(TRUE), i + 4)
    ELSE IF StartsWith(s, i, <<"f", "a", "l", "s", "e">>) THEN Ok(Bool(FALSE), i + 5)
    ELSE ScanNumber(s, i)

\* json.loads(s): one value, whitespace around it allowed, nothing after it.
JsonLoads(s) ==
    LET r == ScanOnce(s, SkipWs(s, 1)) IN
    IF r.ok /\ SkipWs(s, r.end) = Len(s) + 1 THEN Ok(r.val, r.end) ELSE Fail

-----------------------------------------------------------------------------
(* _flatten_dict *)

Sep == <<"_">>

\* A faulty variant of the key join: the parent prefix is dropped.
NewKeyNoPrefix(parent_key, k) == k

\* new_key = f"{parent_key}{sep}{k}" if parent_key else k
NewKey(parent_key, k) == IF parent_key # <<>> THEN parent_key \o Sep \o k ELSE k

RECURSIVE FlattenItems(_, _)

\* _flatten_dict(d, parent_key): dict(items) of the items the loop collects.
FlattenDict(ps, parent_key) == DictFromItems(FlattenItems(ps, parent_key))

\* The list `items` after the loop over d.items() from the pairs ps on.
FlattenItems(ps, parent_key) ==
    IF ps = <<>> THEN <<>>
    ELSE LET k == Head(ps)[1]
             v == Head(ps)[2]
             new_key == NewKey(parent_key, k)
             here == IF IsDict(v) THEN FlattenDict(v.v, new_key)
                     ELSE IF IsList(v) THEN << <<new_key, Str(PyStr(v))>> >>
                     ELSE << <<new_key, v>> >>
         IN here \o FlattenItems(Tail(ps), parent_key)

-----------------------------------------------------------------------------
(* json_to_csv *)

ResultsKey == <<"r", "e", "s", "u", "l", "t", "s">>
LastKey == <<"l", "a", "s", "t">>
ValueKey == <<"v", "a", "l", "u", "e">>

\* A faulty variant of the entry: a str argument is taken as data, never parsed.
ParseInputNoParse(x) == Ok(x, 0)

\* Lines 20-27: a str argument is parsed, anything else is the data itself.
ParseInput(x) == IF IsStr(x) THEN JsonLoads(x.v) ELSE Ok(x, 0)

\* A faulty variant of the record list: "last" is looked at before "results".
ExtractRecordsLastFirst(x) ==
    IF IsDict(x) /\ HasKey(x.v, LastKey) /\ IsDict(Lookup(x.v, LastKey))
    THEN <<Lookup(x.v, LastKey)>>
    ELSE IF IsDict(x) /\ HasKey(x.v, ResultsKey)
    THEN LET results_value == Lookup(x.v, ResultsKey)
         IN IF IsList(results_value) THEN results_value.v ELSE <<results_value>>
    ELSE IF IsList(x) THEN x.v
    ELSE <<x>>

\* Lines 29-45: the record list of the parsed value.
ExtractRecords(x) ==
    IF IsDict(x) /\ HasKey(x.v, ResultsKey)
    THEN LET results_value == Lookup(x.v, ResultsKey)
         IN IF IsList(results_value) THEN results_value.v
            ELSE IF IsDict(results_value) THEN <<results_value>>
            ELSE <<results_value>>
    ELSE IF IsDict(x) /\ HasKey(x.v, LastKey)
    THEN IF IsDict(Lookup(x.v, LastKey)) THEN <<Lookup(x.v, LastKey)>> ELSE <<x>>
    ELSE IF IsList(x) THEN x.v
    ELSE <<x>>

\* A faulty variant of the row of one record: a record that is no dict is skipped,
\* as the comment of line 47 says.
FlattenRecordsSkip(rs) ==
    LET RECURSIVE Go(_)
        Go(rest) ==
            IF rest = <<>> THEN <<>>
            ELSE IF IsDict(Head(rest))
            THEN <<FlattenDict(Head(rest).v, <<>>)>> \o Go(Tail(rest))
            ELSE Go(Tail(rest))
    IN Go(rs)

\* Lines 48-54: one Flat Row per record.
FlattenRecords(rs) ==
    [i \in DOMAIN rs |->
        IF IsDict(rs[i]) THEN FlattenDict(rs[i].v, <<>>)
        ELSE << <<ValueKey, Str(PyStr(rs[i]))>> >>]

RECURSIVE AllKeysAcc(_, _)
AllKeysAcc(acc, keys) ==
    IF keys = <<>> THEN acc
    ELSE AllKeysAcc(IF Head(keys) \in Range(acc) THEN acc ELSE Append(acc, Head(keys)),
                    Tail(keys))

\* A faulty variant of the header: a key seen again moves to its last place.
AllKeysLastSeen(rows) ==
    LET keys == Concat([i \in DOMAIN rows |-> DictKeys(rows[i])])
        RECURSIVE Go(_)
        Go(rest) ==
            IF rest = <<>> THEN <<>>
            ELSE IF Head(rest) \in Range(Tail(rest)) THEN Go(Tail(rest))
            ELSE <<Head(rest)>> \o Go(Tail(rest))
    IN Go(keys)

\* A faulty variant of the header: the keys of the first Flat Row only.
AllKeysFirstRow(rows) == IF rows = <<>> THEN <<>> ELSE DictKeys(rows[1])

\* Lines 60-67: the keys of the Flat Rows in first-seen order.
AllKeys(rows) == AllKeysAcc(<<>>, Concat([i \in DOMAIN rows |-> DictKeys(rows[i])]))

-----------------------------------------------------------------------------
(* csv.DictWriter(output, fieldnames=all_keys, lineterminator="\n") *)

Delimiter == ","
QuoteChar == "\""
LineTerminator == <<"\n">>

\* The text the writer gives a field: None is empty, a str is itself,
\* anything else is str(field).
FieldText(x) == IF x.t = "null" THEN <<>> ELSE PyStr(x)

\* QUOTE_MINIMAL: a field is quoted when it holds the delimiter, the quote
\* character or a character of the line terminator.
NeedsQuote(f) ==
    \E i \in DOMAIN f : f[i] = Delimiter \/ f[i] = QuoteChar \/ f[i] \in Range(LineTerminator)

\* The field as written: quoted when needed, each quote character doubled.
QuotedField(f) ==
    IF NeedsQuote(f)
    THEN <<QuoteChar>>
         \o Concat([i \in DOMAIN f |-> IF f[i] = QuoteChar THEN <<QuoteChar, QuoteChar>> ELSE <<f[i]>>])
         \o <<QuoteChar>>
    ELSE f

\* writer.writerow(fields): a record of one empty field is written as "".
WriteRow(fields) ==
    IF Len(fields) = 1 /\ fields[1] = <<>>
    THEN <<QuoteChar, QuoteChar>> \o LineTerminator
    ELSE Join(<<Delimiter>>, [i \in DOMAIN fields |-> QuotedField(fields[i])]) \o LineTerminator

\* DictWriter._dict_to_list with extrasaction="raise": ValueError for a key
\* that is no fieldname.
RowRaises(fieldnames, row) == \E i \in DOMAIN row : row[i][1] \notin Range(fieldnames)

\* A faulty variant of the row writer: a missing column takes the text None.
RowFieldsRestNone(fieldnames, row) ==
    [i \in DOMAIN fieldnames |->
        IF HasKey(row, fieldnames[i]) THEN FieldText(Lookup(row, fieldnames[i]))
        ELSE <<"N", "o", "n", "e">>]

\* rowdict.get(key, restval) for key in fieldnames, restval = "".
RowFields(fieldnames, row) ==
    [i \in DOMAIN fieldnames |->
        IF HasKey(row, fieldnames[i]) THEN FieldText(Lookup(row, fieldnames[i]))
        ELSE <<>>]

\* writer.writeheader() then writer.writerows(rows): the text written.
CsvText(fieldnames, rows) ==
    WriteRow(fieldnames)
    \o Concat([i \in DOMAIN rows |-> WriteRow(RowFields(fieldnames, rows[i]))])

CsvRaises(fieldnames, rows) == \E i \in DOMAIN rows : RowRaises(fieldnames, rows[i])

-----------------------------------------------------------------------------
(* The inputs the calls are made with *)

MaxTextLen == 3
MaxRecords == 2
MaxEntries == 3

SeqsUpTo(S, n) == UNION {[1..m -> S] : m \in 0..n}

\* Every text of at most MaxTextLen characters over TextChars, well-formed
\* JSON or not, and longer sample texts.
TextChars == {"[", "]", "{", "}", ":", ",", "\"", "1", "a"}

SampleTexts ==
    {
      \* null
      <<"n", "u", "l", "l">>,
      \* true
      <<"t", "r", "u", "e">>,
      \* false
      <<"f", "a", "l", "s", "e">>,
      \* nul
      <<"n", "u", "l">>,
      \* {"results":[1,2]}
      <<"{", "\"", "r", "e", "s", "u", "l", "t", "s", "\"", ":", "[", "1", ",", "2", "]", "}">>,
      \* {"results": [{"a":1},{"a":2,"b":3}]}
      <<"{", "\"", "r", "e", "s", "u", "l", "t", "s", "\"", ":", " ", "[", "{", "\"", "a", "\"", ":", "1", "}", ",", "{", "\"", "a", "\"", ":", "2", ",", "\"", "b", "\"", ":", "3", "}", "]", "}">>,
      \* {"results": {"x": 5}}
      <<"{", "\"", "r", "e", "s", "u", "l", "t", "s", "\"", ":", " ", "{", "\"", "x", "\"", ":", " ", "5", "}", "}">>,
      \* {"last": {"price": 100}}
      <<"{", "\"", "l", "a", "s", "t", "\"", ":", " ", "{", "\"", "p", "r", "i", "c", "e", "\"", ":", " ", "1", "0", "0", "}", "}">>,
      \* {"results":[{"a":{"b":1,"c":2}}]}
      <<"{", "\"", "r", "e", "s", "u", "l", "t", "s", "\"", ":", "[", "{", "\"", "a", "\"", ":", "{", "\"", "b", "\"", ":", "1", ",", "\"", "c", "\"", ":", "2", "}", "}", "]", "}">>,
      \* {"results":[{"tags":["x","y"]}]}
      <<"{", "\"", "r", "e", "s", "u", "l", "t", "s", "\"", ":", "[", "{", "\"", "t", "a", "g", "s", "\"", ":", "[", "\"", "x", "\"", ",", "\"", "y", "\"", "]", "}", "]", "}">>,
      \* {"a":1,"a":2}
      <<"{", "\"", "a", "\"", ":", "1", ",", "\"", "a", "\"", ":", "2", "}">>,
      \*  [1] 
      <<" ", "[", "1", "]", " ">>,
      \* [1]x
      <<"[", "1", "]", "x">>,
      \* [1,]
      <<"[", "1", ",", "]">>,
      \* 01
      <<"0", "1">>,
      \* -1
      <<"-", "1">>,
      \* {"a":1,}
      <<"{", "\"", "a", "\"", ":", "1", ",", "}">>,
      \* "a,b"
      <<"\"", "a", ",", "b", "\"">>,
      \* ["a,b", "c\"d"]
      <<"[", "\"", "a", ",", "b", "\"", ",", " ", "\"", "c", "\\", "\"", "d", "\"", "]">>,
      \* [null, {"a": null}]
      <<"[", "n", "u", "l", "l", ",", " ", "{", "\"", "a", "\"", ":", " ", "n", "u", "l", "l", "}", "]">>
    }

Texts == SeqsUpTo(TextChars, MaxTextLen) \cup SampleTexts

KeyA == <<"a">>
KeyB == <<"b">>
KeyAB == <<"a", "_", "b">>
KeyEmpty == <<>>

\* The dicts with the keys of a sequence of distinct keys from Keys, in every
\* order, and values from Vals.
DistinctKeySeqs(Keys) ==
    {ks \in SeqsUpTo(Keys, Cardinality(Keys)) : \A i, j \in DOMAIN ks : i # j => ks[i] # ks[j]}
DictsOver(Keys, Vals) ==
    UNION {{Dict([i \in DOMAIN ks |-> <<ks[i], vs[i]>>]) : vs \in [DOMAIN ks -> Vals]} :
           ks \in DistinctKeySeqs(Keys)}

ElemScalars == {Null, Bool(TRUE), Num(1), Str(<<"a">>)}
FlatRecords == DictsOver({KeyA, KeyB}, {Null, Num(2)})
OtherElems ==
    { List(<<>>), List(<<Num(1), Str(<<"a">>), Null>>),
      Dict(<< <<ValueKey, Num(3)>> >>),
      Dict(<< <<KeyA, Dict(<< <<KeyB, Bool(FALSE)>> >>)>>, <<KeyAB, Str(<<"x", ",", "\"">>)>> >>),
      Dict(<< <<KeyB, List(<<Str(<<"x">>), Str(<<"y", "'">>)>>)>>, <<KeyEmpty, Str(<<>>)>> >>),
      Dict(<< <<KeyA, Str(<<"x", "\n">>)>> >>) }
Elems == ElemScalars \cup FlatRecords \cup OtherElems

RecordLists == SeqsUpTo(Elems, MaxRecords)

\* The parsed values: every element alone, every list of elements, and the
\* mappings with "results", with "last", with both (in both orders) and with
\* another key beside them.
ParsedValues ==
    Elems
    \cup {List(rs) : rs \in RecordLists}
    \cup {Dict(<< <<ResultsKey, List(rs)>> >>) : rs \in RecordLists}
    \cup {Dict(<< <<ResultsKey, e>> >>) : e \in Elems}
    \cup {Dict(<< <<LastKey, e>> >>) : e \in Elems}
    \cup {Dict(<< <<KeyA, Num(1)>>, <<LastKey, e>> >>) : e \in Elems}
    \cup {Dict(<< <<KeyA, Num(1)>>, <<ResultsKey, e>> >>) : e \in Elems}
    \cup {Dict(<< <<ResultsKey, e[1]>>, <<LastKey, e[2]>> >>) : e \in Elems \X Elems}
    \cup {Dict(<< <<LastKey, e[2]>>, <<ResultsKey, e[1]>> >>) : e \in Elems \X Elems}

Inputs == {Str(s) : s \in Texts} \cup ParsedValues

\* The records _flatten_dict is called with: every mapping of at most
\* MaxEntries entries in all (nested ones counted) over FlattenKeys, with
\* leaves from FlattenLeaves.
FlattenKeys == {KeyA, KeyB, KeyAB, KeyEmpty}
FlattenLeaves == {Num(1), Null, List(<<Num(1), Str(<<"a">>)>>)}

RECURSIVE RecordsOfSize(_)
EntryVals(n) ==
    IF n = 1 THEN FlattenLeaves \cup {Dict(<<>>)}
    ELSE {Dict(r) : r \in RecordsOfSize(n - 1)}
RecordsOfSize(n) ==
    IF n = 0 THEN {<<>>}
    ELSE UNION {LET vals == EntryVals(m)
                    rests == RecordsOfSize(n - m)
                IN {<< <<p[1], p[2]>> >> \o p[3] :
                       p \in {q \in FlattenKeys \X vals \X rests : ~HasKey(q[3], q[1])}} :
                m \in 1..n}

\* Larger records: colliding paths with a column between them, at two depths.
SampleRecords ==
    { << <<KeyAB, Num(1)>>, <<KeyB, Num(1)>>, <<KeyA, Dict(<< <<KeyB, Null>> >>)>> >>,
      << <<KeyA, Dict(<< <<KeyB, Num(1)>>, <<KeyA, Null>> >>)>>, <<KeyAB, Str(<<"x">>)>>,
         <<KeyEmpty, Dict(<< <<KeyB, Bool(TRUE)>> >>)>> >>,
      << <<KeyA, Dict(<< <<KeyAB, Num(1)>>, <<KeyB, Num(2)>>,
                         <<KeyA, Dict(<< <<KeyB, Num(3)>> >>)>> >>)>>,
         <<KeyB, Num(4)>> >> }


-----------------------------------------------------------------------------
(* The calls *)

\* A call of json_to_csv(json_input) about to start.
Init ==
    /\ pc = "start"
    /\ json_input \in Inputs
    /\ data = Unset /\ records = <<>> /\ flattened_records = <<>> /\ all_keys = <<>>
    /\ outcome = "none" /\ output = <<>> /\ ret_line = "none"
    /\ d = <<>> /\ flat = <<>>

\* Lines 20-25: the argument is a str that json.loads rejects; "" is returned.
ReturnParseFailure ==
    /\ pc = "start"
    /\ json_input # Unset
    /\ ~ParseInput(json_input).ok
    /\ pc' = "done"
    /\ outcome' = "returned"
    /\ output' = <<>>
    /\ ret_line' = "parse_failure"
    /\ UNCHANGED <<json_input, data, records, flattened_records, all_keys, d, flat>>

\* Lines 20-57: there is data and the record list is empty; "" is returned.
ReturnNoRecords ==
    /\ pc = "start"
    /\ json_input # Unset
    /\ ParseInput(json_input).ok
    /\ LET x == ParseInput(json_input).val
           rs == ExtractRecords(x)
           rows == FlattenRecords(rs)
       IN /\ rows = <<>>
          /\ data' = x
          /\ records' = rs
          /\ flattened_records' = rows
    /\ pc' = "done"
    /\ outcome' = "returned"
    /\ output' = <<>>
    /\ ret_line' = "no_records"
    /\ UNCHANGED <<json_input, all_keys, d, flat>>

\* Lines 20-74: the header is computed and the rows are written; the text
\* written is returned, unless the writer raises ValueError.
ReturnCsv ==
    /\ pc = "start"
    /\ json_input # Unset
    /\ ParseInput(json_input).ok
    /\ LET x == ParseInput(json_input).val
           rs == ExtractRecords(x)
           rows == FlattenRecords(rs)
           keys == AllKeys(rows)
       IN /\ rows # <<>>
          /\ data' = x
          /\ records' = rs
          /\ flattened_records' = rows
          /\ all_keys' = keys
          /\ IF CsvRaises(keys, rows)
             THEN outcome' = "raised" /\ output' = <<>> /\ ret_line' = "none"
             ELSE outcome' = "returned" /\ output' = CsvText(keys, rows) /\ ret_line' = "csv"
    /\ pc' = "done"
    /\ UNCHANGED <<json_input, d, flat>>

Next == ReturnParseFailure \/ ReturnNoRecords \/ ReturnCsv

Spec == Init /\ [][Next]_vars

\* A call of _flatten_dict(d) about to start.
InitFlatten ==
    /\ pc = "start"
    /\ \/ \E n \in 0..MaxEntries : d \in RecordsOfSize(n)
       \/ d \in SampleRecords
    /\ flat = <<>>
    /\ json_input = Unset /\ data = Unset /\ records = <<>>
    /\ flattened_records = <<>> /\ all_keys = <<>>
    /\ outcome = "none" /\ output = <<>> /\ ret_line = "none"

\* Lines 91-104: _flatten_dict(d) returns.
Flatten ==
    /\ pc = "start"
    /\ json_input = Unset
    /\ flat' = FlattenDict(d, <<>>)
    /\ pc' = "done"
    /\ outcome' = "returned"
    /\ UNCHANGED <<json_input, data, records, flattened_records, all_keys, output, ret_line, d>>

NextFlatten == Flatten

SpecFlatten == InitFlatten /\ [][NextFlatten]_vars

-----------------------------------------------------------------------------
(* Properties of json_to_csv, checked under Spec *)

Done == pc = "done"
Text_value == <<"v", "a", "l", "u", "e">>
Text_None == <<"N", "o", "n", "e">>
Text_True == <<"T", "r", "u", "e">>
NL == <<"\n">>

\* Texts that are no JSON: empty, a bare word, text after the value, a trailing
\* comma, a leading zero, a cut literal, an open string.
KnownNotJson ==
    { <<>>, <<"a">>, <<"[", "1", "]", "x">>, <<"[", "1", ",", "]">>, <<"0", "1">>,
      <<"n", "u", "l">>, <<"\"", "a">>, <<"{", "\"", "a", "\"", ":", "1", ",", "}">> }

\* C1: json_to_csv is total: every call that has ended, whatever its argument,
\* has returned a text and has not raised, and when the argument is a str that
\* json.loads rejects the text returned is the empty text.
C1_Total ==
    Done => /\ outcome = "returned"
            /\ ret_line \in {"parse_failure", "no_records", "csv"}
            /\ \A i \in DOMAIN output : output[i] \in STRING
            /\ (IsStr(json_input) /\ ~JsonLoads(json_input.v).ok) => output = <<>>
            /\ json_input \in {Str(s) : s \in KnownNotJson} => output = <<>>

\* A str argument that is no JSON text has been converted: the call returned
\* at the parse failure.
C1_Witness ==
    /\ Done
    /\ json_input = Str(<<"[", "1", "]", "x">>)
    /\ ret_line = "parse_failure"
    /\ outcome = "returned"

\* The data of a degenerate input of C2: null, {} and [], given parsed or as
\* text.
DegenerateData == {Null, Dict(<<>>), List(<<>>)}

KeyScan(rows) == Concat([i \in DOMAIN rows |-> DictKeys(rows[i])])
FirstIndex(seq, x) == CHOOSE i \in DOMAIN seq : seq[i] = x /\ \A j \in 1..(i - 1) : seq[j] # x
LastIndex(seq, x) == CHOOSE i \in DOMAIN seq : seq[i] = x /\ \A j \in (i + 1)..Len(seq) : seq[j] # x

\* C4: the header holds every key of every Flat Row exactly once and nothing
\* else, in the order of first appearance, rows scanned in record order and
\* each row in its own key order.
C4_Header ==
    (Done /\ flattened_records # <<>>) =>
        LET scan == KeyScan(flattened_records) IN
        /\ \A i, j \in DOMAIN all_keys : i # j => all_keys[i] # all_keys[j]
        /\ Range(all_keys) = Range(scan)
        /\ \A i, j \in DOMAIN all_keys :
              i < j => FirstIndex(scan, all_keys[i]) < FirstIndex(scan, all_keys[j])

\* Two Flat Rows have been merged where the second row brings a new key before
\* a key the first row has.
C4_Witness ==
    /\ Done
    /\ Len(flattened_records) = 2
    /\ DictKeys(flattened_records[1]) = <<KeyA>>
    /\ DictKeys(flattened_records[2]) = <<KeyB, KeyA>>
    /\ all_keys = <<KeyA, KeyB>>
\* The records a CSV reader (comma, double quote, doubled quotes inside a
\* quoted field, "\n" after every record) reads from a text: a sequence of
\* records, each a sequence of field texts; an empty line is a record of no
\* field.  The text is well formed when the reading ends right after a line
\* terminator.  st: "sor" start of record, "sof" start of field, "unq" in an
\* unquoted field, "q" in a quoted field, "qq" after a quote in a quoted field.
RECURSIVE CsvReadFrom(_, _, _, _, _, _)
CsvReadFrom(text, i, recs, fields, cur, st) ==
    IF i > Len(text)
    THEN [ok |-> st = "sor", recs |-> recs]
    ELSE LET c == text[i] IN
         IF st = "q"
         THEN IF c = "\"" THEN CsvReadFrom(text, i + 1, recs, fields, cur, "qq")
              ELSE CsvReadFrom(text, i + 1, recs, fields, Append(cur, c), "q")
         ELSE IF c = "\n"
         THEN CsvReadFrom(text, i + 1,
                          Append(recs, IF st = "sor" THEN <<>> ELSE Append(fields, cur)),
                          <<>>, <<>>, "sor")
         ELSE IF c = ","
         THEN CsvReadFrom(text, i + 1, recs, Append(fields, cur), <<>>, "sof")
         ELSE IF c = "\"" /\ st \in {"sor", "sof"}
         THEN CsvReadFrom(text, i + 1, recs, fields, cur, "q")
         ELSE IF c = "\"" /\ st = "qq"
         THEN CsvReadFrom(text, i + 1, recs, fields, Append(cur, c), "q")
         ELSE CsvReadFrom(text, i + 1, recs, fields, Append(cur, c), "unq")

CsvRead(text) == CsvReadFrom(text, 1, <<>>, <<>>, <<>>, "sor")

\* The text of the spec's example {"results": [{"a":1},{"a":2,"b":3}]}.
ExampleResultsList ==
    Dict(<< <<ResultsKey,
              List(<< Dict(<< <<KeyA, Num(1)>> >>),
                      Dict(<< <<KeyA, Num(2)>>, <<KeyB, Num(3)>> >>) >>)>> >>)

ExampleResultsScalars == Dict(<< <<ResultsKey, List(<<Num(1), Num(2)>>)>> >>)

C7_SameTextEverywhere ==
    (Done /\ outcome = "returned" /\ output # <<>>) =>
        LET read == CsvRead(output) IN
        \A i \in DOMAIN flattened_records :
            \A j \in DOMAIN all_keys :
                HasKey(flattened_records[i], all_keys[j]) =>
                    read.recs[i + 1][j] = PyStr(Lookup(flattened_records[i], all_keys[j]))

IsScalar(x) == x.t \in {"null", "bool", "num", "str"}

\* C8 as stated: an already-parsed scalar, a string included, is not parsed:
\* the record list is the scalar alone and the output is the header value and
\* one row with the scalar's text form.
C8_Original ==
    (Done /\ IsScalar(json_input)) =>
        /\ ret_line = "csv"
        /\ records = <<json_input>>
        /\ output = WriteRow(<<Text_value>>) \o WriteRow(<<PyStr(json_input)>>)

\* C8 amended: an already-parsed null, boolean or number is not parsed, its
\* record list is the value alone and the output is the header value and one
\* row with its text form; a string argument is always taken as JSON text, so
\* it is never itself the data: it either fails to parse (empty output) or its
\* parsed value is converted.
C8_Amended ==
    Done =>
        /\ json_input.t \in {"null", "bool", "num"} =>
              /\ data = json_input
              /\ records = <<json_input>>
              /\ ret_line = "csv"
              /\ output = Text_value \o NL
                          \o (CASE json_input = Null -> Text_None
                                [] json_input = Bool(TRUE) -> Text_True
                                [] json_input = Num(1) -> <<"1">>
                                [] OTHER -> PyStr(json_input))
                          \o NL
        /\ IsStr(json_input) =>
              /\ data # json_input
              /\ ret_line = "parse_failure" \/ data = JsonLoads(json_input.v).val
              /\ ret_line = "parse_failure" => output = <<>>
        /\ json_input = Str(<<"a">>) => ret_line = "parse_failure"
        /\ json_input = Str(<<"1">>) => data = Num(1)

\* An already-parsed boolean has been converted.
C8_Witness ==
    /\ Done
    /\ json_input = Bool(TRUE)
    /\ records = <<Bool(TRUE)>>
    /\ output = Text_value \o NL \o Text_True \o NL
-----------------------------------------------------------------------------
(* Properties of _flatten_dict, checked under SpecFlatten *)

\* The leaves of a record in depth-first mapping iteration order: each the
\* path of keys that leads to it through nested mappings and the value there,
\* which is no mapping.
RECURSIVE LeafPaths(_, _)
LeafPaths(ps, path) ==
    IF ps = <<>> THEN <<>>
    ELSE LET here == Append(path, Head(ps)[1])
             v == Head(ps)[2]
         IN (IF IsDict(v) THEN LeafPaths(v.v, here) ELSE << <<here, v>> >>)
            \o LeafPaths(Tail(ps), path)

\* k1_k2_..._kn: every key joined to the one before by one underscore.
Underscored(path) == Join(<<"_">>, path)

\* The column name the code gives a path: keys joined by one underscore, an
\* empty prefix dropped together with its underscore.
RECURSIVE ColumnOf(_)
ColumnOf(path) ==
    IF Len(path) = 1 THEN path[1]
    ELSE LET prefix == ColumnOf(SubSeq(path, 1, Len(path) - 1))
         IN IF prefix = <<>> THEN path[Len(path)]
            ELSE prefix \o <<"_">> \o path[Len(path)]

\* What a column holds for a leaf: a sequence as its text form, anything else
\* unchanged.
LeafValue(v) == IF IsList(v) THEN Str(PyStr(v)) ELSE v

NoNesting(row) == \A i \in DOMAIN row : ~IsDict(row[i][2]) /\ ~IsList(row[i][2])

\* C9 as stated: no value of the result is a mapping or a sequence; every path
\* to a leaf v gives the column k1_..._kn holding v (a sequence as the text of
\* the whole sequence); there is no other column; {} gives the empty row.
C9_Original ==
    Done =>
        LET leaves == LeafPaths(d, <<>>) IN
        /\ NoNesting(flat)
        /\ \A i \in DOMAIN leaves :
              /\ HasKey(flat, Underscored(leaves[i][1]))
              /\ Lookup(flat, Underscored(leaves[i][1])) = LeafValue(leaves[i][2])
        /\ \A j \in DOMAIN flat :
              \E i \in DOMAIN leaves : flat[j][1] = Underscored(leaves[i][1])
        /\ d = <<>> => flat = <<>>

\* C9 amended: no value of the result is a mapping or a sequence; every path
\* to a leaf gives the column of its keys joined by one underscore, where a
\* prefix that is the empty text is dropped with its underscore; the column
\* holds the leaf of the last path, in depth-first order, that gives this
\* column name (a sequence as the text of the whole sequence); there is no
\* other column; {} gives the empty row.
C9_Amended ==
    Done =>
        LET leaves == LeafPaths(d, <<>>)
            cols == [i \in DOMAIN leaves |-> ColumnOf(leaves[i][1])]
        IN
        /\ NoNesting(flat)
        /\ \A i \in DOMAIN leaves :
              /\ HasKey(flat, cols[i])
              /\ Lookup(flat, cols[i]) = LeafValue(leaves[LastIndex(cols, cols[i])][2])
        /\ \A j \in DOMAIN flat : flat[j][1] \in Range(cols)
        /\ d = <<>> => flat = <<>>

\* A record with a sequence two mappings deep has been flattened into the one
\* column a_b.
C9_Witness ==
    /\ Done
    /\ d = << <<KeyA, Dict(<< <<KeyB, List(<<Num(1), Str(<<"a">>)>>)>> >>)>> >>
    /\ flat = << <<KeyAB, Str(<<"[", "1", ",", " ", "'", "a", "'", "]">>)>> >>

\* C10: when several paths of a record give the same column name, the Flat
\* Row has the column once, with the value of the path visited last in
\* depth-first order, at the place of the column's first occurrence; no other
\* column is changed or lost.
C10_LastWriteWins ==
    Done =>
        LET leaves == LeafPaths(d, <<>>)
            cols == [i \in DOMAIN leaves |-> ColumnOf(leaves[i][1])]
            names == DictKeys(flat)
        IN
        /\ \A i, j \in DOMAIN names : i # j => names[i] # names[j]
        /\ Range(names) = Range(cols)
        /\ \A i, j \in DOMAIN names :
              i < j => FirstIndex(cols, names[i]) < FirstIndex(cols, names[j])
        /\ \A j \in DOMAIN flat :
              flat[j][2] = LeafValue(leaves[LastIndex(cols, names[j])][2])

\* {"a_b": 1, "b": 1, "a": {"b": null}} has been flattened: a_b stays first
\* and holds the later value, b is kept.
C10_Witness ==
    /\ Done
    /\ d = << <<KeyAB, Num(1)>>, <<KeyB, Num(1)>>, <<KeyA, Dict(<< <<KeyB, Null>> >>)>> >>
    /\ flat = << <<KeyAB, Null>>, <<KeyB, Num(1)>> >>
====
